---- MODULE Spec2Model ----
(***************************************************************************)
(* A state-machine model of CameraManager (src/src/systems/               *)
(* CameraManager.ts): camera modes, the timed transition between them,     *)
(* the third-person follow, pointer input and pointer capture; and of      *)
(* TitleScreen (src/src/systems/TitleScreen.ts): the start of the game.    *)
(*                                                                         *)
(* Representation of numbers                                               *)
(*   time      : clock ticks of 500 ms; performance.now() = now * 500 ms,  *)
(*               transitionDuration (seconds) = ticks / 2                  *)
(*   angles    : 1e-4 rad (pitch, yaw)                                     *)
(*   sensitivity: 1e-3 (0.002 is 2)                                        *)
(*   lengths   : 1e-3 world units.  A THREE.Vector3 field f holds the y    *)
(*               component and the field fXZ the pair <<x, z>>.  The       *)
(*               manager's own vector operations (copy, add, lerp,         *)
(*               lerpVectors) act componentwise and makeRotationY leaves   *)
(*               y unchanged; orbitControls.update() couples the three     *)
(*               components of the system camera's position.  The subject  *)
(*               moves on the y axis: its x and z are 0.                   *)
(*   unit vectors, sines and cosines: 1e-3 and 1e-6                        *)
(*   progress  : a rational <<n, d>> with d > 0, or <<0, 0>> for NaN       *)
(***************************************************************************)
EXTENDS Integers, Sequences, FiniteSets, TLC

VARIABLES
  cm,      \* the CameraManager object and the document's pointer-lock state
  now,     \* performance.now(), in ticks
  updated, \* the frame's update call has been made at this clock reading
  timer,   \* the start-up setTimeout of setupEventListeners is still armed
  obs,     \* observer: the last call and the last accepted switch
  ts       \* the TitleScreen object, its pending timers and its callbacks

vars == <<cm, now, updated, timer, obs, ts>>

----------------------------------------------------------------------------
(* Bounds of the model *)

MaxTime == 4
MaxPending == 1
MaxYawSteps == 1
MaxDuration == 3
\* the last clock reading of the two-frame specifications
MaxSubjectTime == 1
\* the pending fade-out timers of the title screen
MaxTimers == 2

----------------------------------------------------------------------------
(* Program constants *)

Modes == {"system", "player"}
Views == {"shoulder", "overhead"}
Cameras == {"SystemCamera", "PlayerCamera", "OrthographicCamera"}

\* lastMouseX / lastMouseY: null
Null == -1
\* the pose written by lerpVectors with a NaN interpolation factor
NaN == -999999
\* Math.PI / 2, in 1e-4 rad
HalfPi == 15708
\* config.playerControls.sensitivity = 0.002
DefaultSensitivity == 2
\* config.transitionDuration = 1.0 s
DefaultTransitionDuration == 2
\* config.playerControls.height = 1.8
DefaultPlayerHeight == 1800
\* playerPosition = (0, 5, 0)
InitialPlayerY == 5000
\* config.systemCamera.position = (0, 2, 10)
SystemCameraY == 2000
SystemCameraXZ == <<0, 10000>>
\* config.orthographicCamera.height = 50
OrthographicHeight == 50000
\* config.systemCamera.targetHeight = 2: y of the orbit target
SystemTargetHeight == 2000
\* config.spotlight.intensity = 6, in 1e-3
SpotlightIntensity == 6000
\* config.orthographicCamera.frustumSize = 50
FrustumSize == 50000
\* config.spotlight.height = 30 and config.spotlight.offset = 5
SpotlightHeight == 30000
SpotlightOffset == 5000
\* playerSpotlight.target.position.y += 0.5
AimHeight == 500

\* orbitControls.minDistance = 2 and orbitControls.maxDistance = 1000
MinDistance == 2000
MaxDistance == 1000000
\* orbitControls.minPolarAngle = Math.PI * 0.05, and maxPolarAngle =
\* Math.PI * 0.95 = Math.PI - minPolarAngle: the cosine and the sine of
\* the lower limit, in 1e-8
CosMinPolarAngle == 98768834
SinMinPolarAngle == 15643447

\* DEFAULT_CAMERA_CONFIG.thirdPersonViews: position (y and <<x, z>>) and
\* smoothing
DefaultViews ==
  [overhead |-> [position |-> 50000, positionXZ |-> <<20000, 1000>>,
                 smoothing |-> <<1, 10>>],
   shoulder |-> [position |-> 1500, positionXZ |-> <<1200, -3500>>,
                 smoothing |-> <<3, 20>>]]

\* DEFAULT_CAMERA_CONFIG: the spotlight group, a top-level setting and the
\* per-view group
DefaultConfig ==
  [spotlight |-> [intensity |-> SpotlightIntensity,
                  height |-> SpotlightHeight,
                  offset |-> SpotlightOffset],
   transitionDuration |-> DefaultTransitionDuration,
   thirdPersonViews |-> DefaultViews]

\* the array views of cycleThirdPersonView
CycleViews == <<"shoulder", "overhead">>
\* the cycle of the V key in docs/THIRD_PERSON_CAMERA.md
DocumentedCycle == <<"shoulder", "overhead", "far", "cinematic">>

\* window.innerWidth, window.innerHeight at construction
InitialViewport == <<1600, 800>>

\* the listeners registered by setupEventListeners, each with the function
\* object it was registered with
Listeners ==
  {<<"mousemove", "onMouseMove.bind in setupEventListeners">>,
   <<"click", "arrow in setupEventListeners">>,
   <<"pointerlockchange", "onPointerLockChange.bind in setupEventListeners">>,
   <<"resize", "handleResize.bind in setupEventListeners">>}

\* container.getBoundingClientRect()
Rect == [left |-> 0, right |-> 2000, top |-> 0, bottom |-> 2000]

----------------------------------------------------------------------------
(* Inputs *)

\* values passed to setTransitionDuration, in ticks
Durations == {-2, 0, DefaultTransitionDuration, MaxDuration}
\* y of the positions passed to setPlayerPosition
PlayerYs == {InitialPlayerY, 7000}
\* one step of yaw or pitch made by the inputs below: 0.8 rad
AngleStep == 400 * DefaultSensitivity * 10
YawCap == MaxYawSteps * AngleStep

\* view ids passed to setThirdPersonView; 'cinematic' is documented in
\* docs/THIRD_PERSON_CAMERA.md and has no entry in thirdPersonOffsets
ViewIds == Views \cup {"cinematic"}
\* window sizes at a resize event
Viewports == {InitialViewport, <<800, 800>>, <<1200, 800>>}
\* partial configurations passed to updateConfig: the documented example
\* { spotlight: { intensity: 25, height: 35 } }
ConfigUpdates == {[spotlight |-> [intensity |-> 25000, height |-> 35000]]}
\* partial configurations of the configuration specification: the
\* documented example and a change of one view's offset
ViewConfigUpdates ==
  ConfigUpdates \cup
    {[thirdPersonViews |->
        [shoulder |-> [position |-> 3000, positionXZ |-> <<0, 0>>]]]}
\* partial offsets passed to updateViewOffset
OffsetPatches == {[smoothing |-> <<1, 1>>]}
\* partial offsets of the view-offset specification; the position is
\* new THREE.Vector3(0, 3, 0)
ViewPatches == OffsetPatches \cup {[position |-> 3000, positionXZ |-> <<0, 0>>]}
\* values passed to updateOrthographicFrustum
FrustumSizes == {20000}
\* values passed to setPlayerHeight
PlayerHeights == {DefaultPlayerHeight, 3000}
\* values passed to setPlayerSensitivity: 0.001 and 0.002
Sensitivities == {1, DefaultSensitivity}

\* mousemove events
MouseEvents ==
  [clientX : {0, 2000, 3000}, clientY : {0, 2000},
   movementX : {-400, 0, 400}, movementY : {-400, 0, 400}]
\* right-stick samples; deltaTime in 1/60 s
GamepadSamples == [deltaX : {-1, 0, 1}, deltaY : {-1, 0, 1}, dt60 : {4}]
\* the mousemove events of the listener specification
ListenerEvents ==
  {ev \in MouseEvents :
     ev.clientY = 0 /\ ev.movementX = 400 /\ ev.movementY # 0}
\* the mousemove events and stick samples of the subject-position
\* specification: the events record the pointer position, the stick turns
\* and tilts the view
SubjectEvents ==
  {ev \in ListenerEvents : ev.clientX = 0 /\ ev.movementY = 400}
SubjectSamples == {g \in GamepadSamples : g.deltaX = 1 /\ g.deltaY = 1}
\* the mousemove events and stick samples of the input specification: the
\* pointer at the container's top edge, one vertical direction per device
InputEvents == {ev \in MouseEvents : ev.clientY = 0 /\ ev.movementY # -400}
InputSamples == {g \in GamepadSamples : g.deltaY # -1}
\* the stick samples of the turning specification: a turn to the right
FollowSamples == {g \in GamepadSamples : g.deltaX = 1 /\ g.deltaY = 0}

----------------------------------------------------------------------------
(* Arithmetic *)

Max(a, b) == IF a >= b THEN a ELSE b
Min(a, b) == IF a <= b THEN a ELSE b

NaNProgress == <<0, 0>>
\* no progress computed yet in this transition
NoSample == <<0, -1>>
IsNaN(p) == p[2] = 0

\* Math.min(elapsed / duration, 1): no lower clamp
Progress(elapsed, duration) ==
  IF duration = 0
    THEN IF elapsed = 0 THEN NaNProgress ELSE <<1, 1>>
    ELSE IF duration > 0
      THEN IF elapsed >= duration THEN <<1, 1>> ELSE <<elapsed, duration>>
      ELSE <<0 - elapsed, 0 - duration>>

\* mutant: the completion test is strict
ProgressDoneStrict(p) == p[2] # 0 /\ p[1] > p[2]

\* progress >= 1  (false for NaN)
ProgressDone(p) == ~IsNaN(p) /\ p[1] >= p[2]

\* 1 - Math.pow(1 - progress, 3)
EasedProgress(p) ==
  IF IsNaN(p) THEN NaNProgress
  ELSE <<p[2] * p[2] * p[2] - (p[2] - p[1]) * (p[2] - p[1]) * (p[2] - p[1]),
         p[2] * p[2] * p[2]>>

\* Vector3.lerpVectors / Vector3.lerp on the y component: a + (b - a) * alpha
Lerp(a, b, alpha) ==
  IF IsNaN(alpha) THEN NaN ELSE a + ((b - a) * alpha[1]) \div alpha[2]

\* lerp on the x and z components
LerpXZ(a, b, alpha) == <<Lerp(a[1], b[1], alpha), Lerp(a[2], b[2], alpha)>>

\* a / b rounded to the nearest integer, b > 0
RoundDiv(a, b) == (2 * a + b) \div (2 * b)

\* Math.sqrt on integers: the largest r in lo..hi with r * r <= n
RECURSIVE SqrtBetween(_, _, _)
SqrtBetween(n, lo, hi) ==
  IF lo >= hi THEN lo
  ELSE LET mid == (lo + hi + 1) \div 2
       IN IF mid * mid <= n THEN SqrtBetween(n, mid, hi)
          ELSE SqrtBetween(n, lo, mid - 1)

Sqrt(n) == SqrtBetween(n, 0, 46340)

\* Math.sqrt(n) in 1e-3, for n < 2^31: the whole part by search, the
\* fraction by one Newton step from it
SqrtMilli(n) ==
  LET r == Sqrt(n)
  IN IF r = 0 THEN 0 ELSE r * 1000 + ((n - r * r) * 1000) \div (2 * r)

Abs(a) == IF a < 0 THEN 0 - a ELSE a

\* q with the sign of a
Signed(a, q) == IF a < 0 THEN 0 - q ELSE q

\* a * b / c as <<quotient, remainder>>, for a, b >= 0 and 0 < c <= 3e8:
\* the product is built up two bits of b at a time and reduced by c at
\* every step, so that no intermediate value leaves 31 bits
RECURSIVE MulDivRem(_, _, _)
MulDivRem(a, b, c) ==
  IF b = 0 THEN <<0, 0>>
  ELSE LET rest == MulDivRem(a, b \div 4, c)
           r == 4 * rest[2] + (b % 4) * (a % c)
       IN <<4 * rest[1] + (b % 4) * (a \div c) + r \div c, r % c>>

\* a * b / c rounded to the nearest integer
MulDivRound(a, b, c) ==
  LET qr == MulDivRem(a, b, c)
  IN IF 2 * qr[2] >= c THEN qr[1] + 1 ELSE qr[1]

\* a / length in 1e-8, for 0 <= a <= length; the length is given in 1e-3 of
\* the unit of a
Ratio(a, length) == MulDivRem(a * 1000, 100000000, length)[1]

\* The components of a vector are brought to five digits before its length
\* is taken, so that the squares add up below 2^31: a short vector is
\* multiplied by Magnify, a long one divided by Shrink, and one of the two
\* factors is 1.  The components are at most 1e6 (1000 world units)
Magnify(x, y, z) ==
  LET largest == Max(Abs(x), Max(Abs(y), Abs(z)))
  IN IF largest = 0 THEN 1 ELSE Max(1, 25000 \div largest)

Shrink(x, y, z) ==
  LET largest == Max(Abs(x), Max(Abs(y), Abs(z)))
  IN IF largest <= 25000 THEN 1 ELSE largest \div 25000 + 1

\* Vector3.length of (x, y, z) times k / d, in 1e-3: the squares of the
\* whole parts of the components over d, and the share of the remainders
LengthMilli(x, y, z, k, d) ==
  LET ax == Abs(k * x) \div d
      ay == Abs(k * y) \div d
      az == Abs(k * z) \div d
      bx == Abs(k * x) % d
      by == Abs(k * y) % d
      bz == Abs(k * z) % d
  IN SqrtMilli(ax * ax + ay * ay + az * az
                 + (2 * (ax * bx + ay * by + az * bz)) \div d
                 + (bx * bx + by * by + bz * bz) \div (d * d))

\* (x, y, z) divided by its length, in 1e-8; the zero vector is kept
Unit(x, y, z) ==
  LET k == Magnify(x, y, z)
      d == Shrink(x, y, z)
      length == LengthMilli(x, y, z, k, d)
      share(a) == Ratio(Abs(k * a) \div d, length)
                    + Ratio(Abs(k * a) % d, length) \div d
  IN IF length = 0 THEN <<0, 0, 0>>
     ELSE <<Signed(x, share(x)), Signed(y, share(y)), Signed(z, share(z))>>

\* term * a2 / 1e4, for a term >= 0 and a2 = angle squared in 1e-4
TimesSquare(term, a2) ==
  (term \div 10000) * a2 + RoundDiv((term % 10000) * a2, 10000)

\* the Taylor series of cosine (k = 1) and sine (k = 2) from the given term
\* on, in 1e-6: the terms alternate in sign
RECURSIVE TaylorSum(_, _, _, _)
TaylorSum(term, a2, k, sign) ==
  IF term = 0 \/ k > 24 THEN 0
  ELSE sign * term
         + TaylorSum(RoundDiv(TimesSquare(term, a2), k * (k + 1)),
                     a2, k + 2, 0 - sign)

\* the angle brought into -pi..pi, in 1e-4 rad
Reduce(a) == LET r == a % 62832 IN IF r > 31416 THEN r - 62832 ELSE r

\* Math.cos and Math.sin of an angle in 1e-4 rad, in 1e-6
Cos(a) == LET r == Reduce(a) IN TaylorSum(1000000, (r * r) \div 10000, 1, 1)
Sin(a) ==
  LET r == Reduce(a)
  IN IF r < 0 THEN 0 - TaylorSum((0 - r) * 100, (r * r) \div 10000, 2, 1)
     ELSE TaylorSum(r * 100, (r * r) \div 10000, 2, 1)

\* length x (1e-3) times factor f (1e-6), in 1e-6 world units
Micro(x, f) == (x \div 1000) * f + ((x % 1000) * f) \div 1000

\* Matrix4.makeRotationY(yaw) applied to (x, y, z): y is kept,
\* x' = x cos + z sin, z' = z cos - x sin
RotateY(v, yaw) ==
  LET c == Cos(yaw)
      s == Sin(yaw)
  IN <<RoundDiv(Micro(v[1], c) + Micro(v[2], s), 1000),
       RoundDiv(Micro(v[2], c) - Micro(v[1], s), 1000)>>

\* Vector3.normalize of (0, y, z), in 1e-3: <<y, z>> divided by the length
Normalize(v) ==
  LET unit == Unit(0, v[1], v[2])
  IN <<RoundDiv(unit[2], 100000), RoundDiv(unit[3], 100000)>>

\* the aspect of the perspective cameras, a width and a height, and the
\* orthographic frustum of a frustum size and an aspect: frustumSize *
\* aspect / -2, frustumSize * aspect / 2, frustumSize / 2, frustumSize / -2
Frustum(aspect, frustumSize, size) ==
  [aspect |-> aspect,
   left |-> 0 - ((frustumSize * size[1]) \div (2 * size[2])),
   right |-> (frustumSize * size[1]) \div (2 * size[2]),
   top |-> frustumSize \div 2,
   bottom |-> 0 - (frustumSize \div 2)]

\* aspect = innerWidth / innerHeight for the three cameras, with
\* config.orthographicCamera.frustumSize
Projection(viewport) == Frustum(viewport, FrustumSize, viewport)

\* mutant: the upper clamp is missing
ClampPitchBelowOnly(pitch) == IF pitch < 0 - HalfPi THEN 0 - HalfPi ELSE pitch

\* Math.max(-Math.PI / 2, Math.min(Math.PI / 2, pitch))
ClampPitch(pitch) == Max(0 - HalfPi, Min(HalfPi, pitch))

----------------------------------------------------------------------------
(* The constructor *)

\* constructor with config {defaultMode, defaultView, playerControls.enabled}:
\* initializeCameras, initializeControls, setupEventListeners
Construct(defaultMode, defaultView, controlsEnabled) ==
  [currentMode |-> defaultMode,
   currentThirdPersonView |-> defaultView,
   \* new Map([['overhead', config.thirdPersonViews.overhead], ...])
   thirdPersonOffsets |-> DefaultConfig.thirdPersonViews,
   position |->
     [c \in Cameras |->
        IF c = "SystemCamera" THEN SystemCameraY
        ELSE IF c = "PlayerCamera" THEN InitialPlayerY + DefaultPlayerHeight
        ELSE InitialPlayerY + OrthographicHeight],
   positionXZ |->
     [c \in Cameras |-> IF c = "SystemCamera" THEN SystemCameraXZ ELSE <<0, 0>>],
   currentCamera |->
     IF defaultView = "overhead" THEN "OrthographicCamera" ELSE "PlayerCamera",
   orbitControls |-> [enabled |-> TRUE, target |-> SystemTargetHeight],
   playerControls |->
     [enabled |-> controlsEnabled, pitch |-> 0, yaw |-> 0,
      sensitivity |-> DefaultSensitivity],
   playerPosition |-> InitialPlayerY,
   \* the Vector3 object that playerPosition is: the manager's own, or the
   \* caller's
   playerPositionRef |-> "own",
   playerHeight |-> DefaultPlayerHeight,
   currentCameraOffset |-> 0,
   currentCameraOffsetXZ |-> <<0, 0>>,
   targetCameraOffset |-> 0,
   targetCameraOffsetXZ |-> <<0, 0>>,
   lastMouseX |-> Null,
   lastMouseY |-> Null,
   isTransitioning |-> FALSE,
   transitionDuration |-> DefaultTransitionDuration,
   transitionStart |-> 0,
   transitionFromPosition |-> 0,
   transitionFromPositionXZ |-> <<0, 0>>,
   transitionToPosition |-> 0,
   transitionToPositionXZ |-> <<0, 0>>,
   \* document.pointerLockElement === container, and the requestPointerLock()
   \* promises not yet settled
   pointerLocked |-> FALSE,
   pendingLock |-> 0,
   \* camera aspect and orthographic frustum
   projection |-> Projection(InitialViewport),
   \* the lighting consumer: linked by setLandSystem, and the intensity it
   \* last received through setSpotlightIntensity
   landSystem |-> [linked |-> FALSE, intensity |-> Null, position |-> Null,
                   direction |-> <<>>],
   config |-> DefaultConfig,
   \* new THREE.SpotLight(0xffffff, config.spotlight.intensity)
   playerSpotlight |-> [intensity |-> DefaultConfig.spotlight.intensity,
                        position |-> 40000,
                        target |-> 0],
   listeners |-> Listeners,
   \* instrumentation: dispose() has been called
   disposed |-> FALSE,
   \* instrumentation: the steps the last update call ran, and the progress
   \* computed by the last updateCameraTransition of the current transition
   ran |-> {},
   progress |-> NoSample]

----------------------------------------------------------------------------
(* Camera switching *)

\* container.requestPointerLock(): the promise settles later
RequestPointerLock(c) == [c EXCEPT !.pendingLock = @ + 1]

\* document.exitPointerLock()
ExitPointerLock(c) == [c EXCEPT !.pointerLocked = FALSE]

ModeCamera(mode) == IF mode = "system" THEN "SystemCamera" ELSE "PlayerCamera"

\* mutant: the player controls are left as they were
SetActiveCameraKeepsPlayerControls(c, mode, requestPointerLock) ==
  LET c1 == [c EXCEPT !.currentMode = mode,
                      !.currentCamera = ModeCamera(mode),
                      !.orbitControls.enabled = (mode = "system")]
  IN IF mode = "player" /\ requestPointerLock
       THEN IF ~c1.pointerLocked THEN RequestPointerLock(c1) ELSE c1
       ELSE IF mode = "system"
         THEN IF c1.pointerLocked THEN ExitPointerLock(c1) ELSE c1
         ELSE c1

SetActiveCamera(c, mode, requestPointerLock) ==
  LET c1 == [c EXCEPT !.currentMode = mode,
                      !.currentCamera = ModeCamera(mode),
                      !.orbitControls.enabled = (mode = "system"),
                      !.playerControls.enabled = (mode = "player")]
  IN IF mode = "player" /\ requestPointerLock
       THEN IF ~c1.pointerLocked THEN RequestPointerLock(c1) ELSE c1
       ELSE IF mode = "system"
         THEN IF c1.pointerLocked THEN ExitPointerLock(c1) ELSE c1
         ELSE c1

StartCameraTransition(c, from, to, targetMode, t) ==
  [c EXCEPT !.isTransitioning = TRUE,
            !.transitionStart = t,
            !.transitionFromPosition = c.position[from],
            !.transitionFromPositionXZ = c.positionXZ[from],
            !.transitionToPosition = c.position[to],
            !.transitionToPositionXZ = c.positionXZ[to],
            !.currentMode = targetMode,
            !.progress = NoSample]

\* mutant: a switch to the current mode is not rejected
SwitchCameraNoSameModeCheck(c, mode, immediate, t) ==
  IF c.isTransitioning
    THEN c
    ELSE IF immediate
      THEN SetActiveCamera(c, mode, TRUE)
      ELSE StartCameraTransition(c, c.currentCamera, ModeCamera(mode), mode, t)

\* mutant: a switch during a transition is not rejected
SwitchCameraNoTransitionCheck(c, mode, immediate, t) ==
  IF c.currentMode = mode
    THEN c
    ELSE IF immediate
      THEN SetActiveCamera(c, mode, TRUE)
      ELSE StartCameraTransition(c, c.currentCamera, ModeCamera(mode), mode, t)

SwitchCamera(c, mode, immediate, t) ==
  IF c.currentMode = mode \/ c.isTransitioning
    THEN c
    ELSE IF immediate
      THEN SetActiveCamera(c, mode, TRUE)
      ELSE StartCameraTransition(c, c.currentCamera, ModeCamera(mode), mode, t)

----------------------------------------------------------------------------
(* Per-frame update *)

\* mutant: completion clears the flag but does not call setActiveCamera
UpdateCameraTransitionNoLanding(c, t) ==
  LET progress == Progress(t - c.transitionStart, c.transitionDuration)
      c1 == [c EXCEPT !.position[c.currentCamera] =
                         Lerp(c.transitionFromPosition, c.transitionToPosition,
                              EasedProgress(progress)),
                      !.positionXZ[c.currentCamera] =
                         LerpXZ(c.transitionFromPositionXZ,
                                c.transitionToPositionXZ,
                                EasedProgress(progress)),
                      !.progress = progress,
                      !.ran = @ \cup {"transition"}]
  IN IF ProgressDone(progress)
       THEN [c1 EXCEPT !.isTransitioning = FALSE, !.ran = @ \cup {"landed"}]
       ELSE c1

UpdateCameraTransition(c, t) ==
  LET progress == Progress(t - c.transitionStart, c.transitionDuration)
      c1 == [c EXCEPT !.position[c.currentCamera] =
                         Lerp(c.transitionFromPosition, c.transitionToPosition,
                              EasedProgress(progress)),
                      !.positionXZ[c.currentCamera] =
                         LerpXZ(c.transitionFromPositionXZ,
                                c.transitionToPositionXZ,
                                EasedProgress(progress)),
                      !.progress = progress,
                      !.ran = @ \cup {"transition"}]
  IN IF ProgressDone(progress)
       THEN SetActiveCamera([c1 EXCEPT !.isTransitioning = FALSE,
                                       !.ran = @ \cup {"landed"}],
                            c1.currentMode, FALSE)
       ELSE c1

ViewCamera(view) ==
  IF view = "overhead" THEN "OrthographicCamera" ELSE "PlayerCamera"

\* updatePlayerSpotlight: the light's position and aim point, and what it
\* publishes to the lighting consumer.  A direction is the pair of the y
\* and z components of the normalized target - position, in 1e-3; x is 0
UpdatePlayerSpotlight(c) ==
  IF c.currentMode = "player"
    THEN
      LET position == c.playerPosition + c.config.spotlight.height
          target == c.playerPosition + AimHeight
          c1 == [c EXCEPT !.playerSpotlight.position = position,
                          !.playerSpotlight.target = target]
      IN IF ~c.landSystem.linked THEN c1
         ELSE [c1 EXCEPT
                 !.landSystem.position = position,
                 !.landSystem.direction =
                    Normalize(<<target - position, c.config.spotlight.offset>>),
                 !.landSystem.intensity = c.playerSpotlight.intensity,
                 !.ran = @ \cup {"published"}]
    ELSE IF ~c.landSystem.linked THEN c
    ELSE [c EXCEPT !.landSystem.intensity = 0]

\* mutant: the view's smoothing is not read, the offset always lags
UpdatePlayerCameraLagging(c) ==
  IF ~c.playerControls.enabled THEN c
  ELSE IF c.currentThirdPersonView \notin DOMAIN c.thirdPersonOffsets THEN c
  ELSE
    LET offsetConfig == c.thirdPersonOffsets[c.currentThirdPersonView]
        activeCamera == ViewCamera(c.currentThirdPersonView)
        target == offsetConfig.position
        targetXZ == RotateY(offsetConfig.positionXZ, c.playerControls.yaw)
        offset == Lerp(c.currentCameraOffset, target, <<1, 10>>)
        offsetXZ == LerpXZ(c.currentCameraOffsetXZ, targetXZ, <<1, 10>>)
    IN UpdatePlayerSpotlight(
         [c EXCEPT !.currentCamera = activeCamera,
                   !.targetCameraOffset = target,
                   !.targetCameraOffsetXZ = targetXZ,
                   !.currentCameraOffset = offset,
                   !.currentCameraOffsetXZ = offsetXZ,
                   !.position[activeCamera] = c.playerPosition + offset,
                   !.positionXZ[activeCamera] = offsetXZ,
                   !.ran = @ \cup {"follow"}])

\* mutant: the camera is placed at the target offset, not the smoothed one
UpdatePlayerCameraAtTarget(c) ==
  IF ~c.playerControls.enabled THEN c
  ELSE IF c.currentThirdPersonView \notin DOMAIN c.thirdPersonOffsets THEN c
  ELSE
    LET offsetConfig == c.thirdPersonOffsets[c.currentThirdPersonView]
        activeCamera == ViewCamera(c.currentThirdPersonView)
        target == offsetConfig.position
        targetXZ == RotateY(offsetConfig.positionXZ, c.playerControls.yaw)
        offset == Lerp(c.currentCameraOffset, target, offsetConfig.smoothing)
        offsetXZ == LerpXZ(c.currentCameraOffsetXZ, targetXZ, offsetConfig.smoothing)
    IN UpdatePlayerSpotlight(
         [c EXCEPT !.currentCamera = activeCamera,
                   !.targetCameraOffset = target,
                   !.targetCameraOffsetXZ = targetXZ,
                   !.currentCameraOffset = offset,
                   !.currentCameraOffsetXZ = offsetXZ,
                   !.position[activeCamera] = c.playerPosition + target,
                   !.positionXZ[activeCamera] = targetXZ,
                   !.ran = @ \cup {"follow"}])

UpdatePlayerCamera(c) ==
  IF ~c.playerControls.enabled THEN c
  ELSE IF c.currentThirdPersonView \notin DOMAIN c.thirdPersonOffsets THEN c
  ELSE
    LET offsetConfig == c.thirdPersonOffsets[c.currentThirdPersonView]
        activeCamera == ViewCamera(c.currentThirdPersonView)
        target == offsetConfig.position
        targetXZ == RotateY(offsetConfig.positionXZ, c.playerControls.yaw)
        offset == Lerp(c.currentCameraOffset, target, offsetConfig.smoothing)
        offsetXZ == LerpXZ(c.currentCameraOffsetXZ, targetXZ, offsetConfig.smoothing)
    IN UpdatePlayerSpotlight(
         [c EXCEPT !.currentCamera = activeCamera,
                   !.targetCameraOffset = target,
                   !.targetCameraOffsetXZ = targetXZ,
                   !.currentCameraOffset = offset,
                   !.currentCameraOffsetXZ = offsetXZ,
                   !.position[activeCamera] = c.playerPosition + offset,
                   !.positionXZ[activeCamera] = offsetXZ,
                   !.ran = @ \cup {"follow"}])

\* the length of a vector along a direction of which it has the share u
\* (1e-8), in 1e-3: the length is minDistance, maxDistance or, kept, the
\* length (1e-3) that was taken of the vector times k / d
Along(near, far, length, k, d, u) ==
  LET v == MulDivRem(length, u, 100000000)[1]
  IN IF near THEN MulDivRound(MinDistance, u, 100000000)
     ELSE IF far THEN MulDivRound(MaxDistance, u, 100000000)
     ELSE IF d = 1 THEN RoundDiv(v, 1000 * k)
     ELSE (v \div 1000) * d + RoundDiv((v % 1000) * d, 1000)

\* the offset (x, dy, z) of the camera from the orbit target after
\* spherical.setFromVector3, the clamp of phi to minPolarAngle ..
\* maxPolarAngle, the clamp of the radius to minDistance .. maxDistance and
\* offset.setFromSpherical: theta = atan2(x, z) is kept, and is 0 for an
\* offset on the axis; an offset of length 0 has phi = 0.  An offset inside
\* all limits is returned as it is
OrbitClamp(x, dy, z) ==
  LET k == Magnify(x, dy, z)
      d == Shrink(x, dy, z)
      length == LengthMilli(x, dy, z, k, d)
      unit == Unit(x, dy, z)
      \* (sin theta, cos theta)
      flat == IF x = 0 /\ z = 0 THEN <<0, 0, 100000000>> ELSE Unit(x, 0, z)
      \* cos phi = dy / radius against the cosine of the limits
      low == length = 0 \/ unit[2] > CosMinPolarAngle
      high == unit[2] < 0 - CosMinPolarAngle
      near == d = 1 /\ length \div 1000 < MinDistance * k
      far == k = 1 /\ length * d > MaxDistance * 1000
      \* sin phi sin theta and sin phi cos theta at a limit of phi
      side(i) == MulDivRound(Abs(flat[i]), SinMinPolarAngle, 100000000)
      share(i) == IF low \/ high THEN IF i = 2 THEN CosMinPolarAngle ELSE side(i)
                  ELSE Abs(unit[i])
      sign(i) == IF low THEN IF i = 2 THEN 1 ELSE flat[i]
                 ELSE IF high THEN IF i = 2 THEN -1 ELSE flat[i]
                 ELSE unit[i]
      part(i) == Signed(sign(i), Along(near, far, length, k, d, share(i)))
  IN IF ~low /\ ~high /\ ~near /\ ~far THEN <<x, dy, z>>
     ELSE <<part(1), part(2), part(3)>>

\* orbitControls.update() of the three.js library.  With no pointer drag and
\* the damped motion at rest it re-derives the system camera's position from
\* its offset to the orbit target (0, target, 0) in spherical coordinates:
\* the azimuth atan2(x, z) is kept, the polar angle is clamped to
\* minPolarAngle..maxPolarAngle and the radius to minDistance..maxDistance.
\* A NaN position stays NaN
OrbitControlsUpdate(c) ==
  LET offset == OrbitClamp(c.positionXZ["SystemCamera"][1],
                           c.position["SystemCamera"] - c.orbitControls.target,
                           c.positionXZ["SystemCamera"][2])
      c1 == [c EXCEPT !.ran = @ \cup {"orbit"}]
  IN IF c.position["SystemCamera"] = NaN THEN c1
     ELSE [c1 EXCEPT
             !.position["SystemCamera"] = c.orbitControls.target + offset[2],
             !.positionXZ["SystemCamera"] = <<offset[1], offset[3]>>]

Update(c, t) ==
  LET c0 == [c EXCEPT !.ran = {}]
      c1 == IF c0.isTransitioning THEN UpdateCameraTransition(c0, t) ELSE c0
  IN IF c1.currentMode = "system" THEN OrbitControlsUpdate(c1)
     ELSE IF c1.currentMode = "player" THEN UpdatePlayerCamera(c1)
     ELSE c1

----------------------------------------------------------------------------
(* Input *)

InsideRect(ev) ==
  /\ ev.clientX >= Rect.left /\ ev.clientX <= Rect.right
  /\ ev.clientY >= Rect.top /\ ev.clientY <= Rect.bottom

\* yaw -= movementX * sensitivity; pitch -= movementY * sensitivity; clamp.
\* mx, my are the movement in tenths of a pixel.
ApplyMovement(c, mx, my) ==
  [c EXCEPT !.playerControls.yaw = @ - mx * c.playerControls.sensitivity,
            !.playerControls.pitch =
               ClampPitch(@ - my * c.playerControls.sensitivity)]

\* mutant: the handler moves the camera itself, by running the follow
OnMouseMoveMovesCamera(c, ev) ==
  IF ~c.playerControls.enabled THEN c
  ELSE IF c.pointerLocked
    THEN UpdatePlayerCamera(
           ApplyMovement(c, ev.movementX * 10, ev.movementY * 10))
  ELSE IF ~InsideRect(ev) THEN c
  ELSE IF c.lastMouseX = Null \/ c.lastMouseY = Null
    THEN [c EXCEPT !.lastMouseX = ev.clientX, !.lastMouseY = ev.clientY]
  ELSE UpdatePlayerCamera(
         ApplyMovement(
           [c EXCEPT !.lastMouseX = ev.clientX, !.lastMouseY = ev.clientY],
           (ev.clientX - c.lastMouseX) * c.playerControls.sensitivity,
           (ev.clientY - c.lastMouseY) * c.playerControls.sensitivity))

\* mutant: there is no first-sample test; null counts as 0 in the difference
OnMouseMoveNoBaseline(c, ev) ==
  IF ~c.playerControls.enabled THEN c
  ELSE IF c.pointerLocked
    THEN ApplyMovement(c, ev.movementX * 10, ev.movementY * 10)
  ELSE IF ~InsideRect(ev) THEN c
  ELSE ApplyMovement(
         [c EXCEPT !.lastMouseX = ev.clientX, !.lastMouseY = ev.clientY],
         (ev.clientX - Max(c.lastMouseX, 0)) * c.playerControls.sensitivity,
         (ev.clientY - Max(c.lastMouseY, 0)) * c.playerControls.sensitivity)

OnMouseMove(c, ev) ==
  IF ~c.playerControls.enabled THEN c
  ELSE IF c.pointerLocked
    THEN ApplyMovement(c, ev.movementX * 10, ev.movementY * 10)
  ELSE IF ~InsideRect(ev) THEN c
  ELSE IF c.lastMouseX = Null \/ c.lastMouseY = Null
    THEN [c EXCEPT !.lastMouseX = ev.clientX, !.lastMouseY = ev.clientY]
  ELSE ApplyMovement(
         [c EXCEPT !.lastMouseX = ev.clientX, !.lastMouseY = ev.clientY],
         (ev.clientX - c.lastMouseX) * c.playerControls.sensitivity,
         (ev.clientY - c.lastMouseY) * c.playerControls.sensitivity)

\* mutant: the stick sets the angles instead of adding to them
UpdatePlayerCameraFromGamepadOverwrites(c, deltaX, deltaY, dt60) ==
  IF ~c.playerControls.enabled \/ c.currentMode # "player" THEN c
  ELSE
    LET gamepadSensitivity == c.playerControls.sensitivity * 100
    IN [c EXCEPT
          !.playerControls.yaw = 0 - deltaX * gamepadSensitivity * dt60 * 10,
          !.playerControls.pitch =
             ClampPitch(deltaY * gamepadSensitivity * dt60 * 10)]

UpdatePlayerCameraFromGamepad(c, deltaX, deltaY, dt60) ==
  IF ~c.playerControls.enabled \/ c.currentMode # "player" THEN c
  ELSE
    LET gamepadSensitivity == c.playerControls.sensitivity * 100
    IN [c EXCEPT
          !.playerControls.yaw = @ - deltaX * gamepadSensitivity * dt60 * 10,
          !.playerControls.pitch =
             ClampPitch(@ + deltaY * gamepadSensitivity * dt60 * 10)]

----------------------------------------------------------------------------
(* Other public operations *)

\* mutant: the argument itself is kept instead of a copy of it
SetPlayerPositionKeepsReference(c, y) ==
  LET c1 == [c EXCEPT !.playerPosition = y, !.playerPositionRef = "caller"]
  IN IF c1.currentMode = "player"
       THEN [c1 EXCEPT !.position["PlayerCamera"] = y + c1.playerHeight,
                       !.positionXZ["PlayerCamera"] = <<0, 0>>]
       ELSE c1

\* playerPosition.copy(position): the manager's own vector takes the value
SetPlayerPosition(c, y) ==
  LET c1 == [c EXCEPT !.playerPosition = y]
  IN IF c1.currentMode = "player"
       THEN [c1 EXCEPT !.position["PlayerCamera"] = y + c1.playerHeight,
                       !.positionXZ["PlayerCamera"] = <<0, 0>>]
       ELSE c1

\* setPlayerHeight(height)
SetPlayerHeight(c, height) == [c EXCEPT !.playerHeight = height]

\* setPlayerSensitivity(sensitivity)
SetPlayerSensitivity(c, sensitivity) ==
  [c EXCEPT !.playerControls.sensitivity = sensitivity]

\* playerPosition.clone(): a new vector with the stored value
GetPlayerPosition(c) == c.playerPosition

SetThirdPersonView(c, view) ==
  IF c.currentThirdPersonView = view THEN c
  ELSE
    LET c1 == [c EXCEPT !.currentThirdPersonView = view]
    IN IF view \in DOMAIN c1.thirdPersonOffsets
         THEN [c1 EXCEPT !.targetCameraOffset =
                            c1.thirdPersonOffsets[view].position,
                         !.targetCameraOffsetXZ =
                            RotateY(c1.thirdPersonOffsets[view].positionXZ,
                                    c1.playerControls.yaw)]
         ELSE c1

\* Array.prototype.indexOf, counted from 0; -1 when x is not an element
IndexOf(seq, x) ==
  IF \E i \in 1..Len(seq) : seq[i] = x
    THEN (CHOOSE i \in 1..Len(seq) :
            seq[i] = x /\ \A j \in 1..(i - 1) : seq[j] # x) - 1
    ELSE -1

CycleThirdPersonView(c) ==
  LET currentIndex == IndexOf(CycleViews, c.currentThirdPersonView)
      nextIndex == (currentIndex + 1) % Len(CycleViews)
  IN SetThirdPersonView(c, CycleViews[nextIndex + 1])

SetTransitionDuration(c, duration) == [c EXCEPT !.transitionDuration = duration]

SetLandSystem(c) == [c EXCEPT !.landSystem.linked = TRUE]

\* mergeConfig: the groups are merged field by field, the per-view group
\* view by view and field by field, the other settings are replaced when the
\* overrides name them
MergeConfig(defaults, overrides) ==
  [k \in DOMAIN defaults |->
     IF k = "spotlight"
       THEN [f \in DOMAIN defaults[k] |->
               IF k \in DOMAIN overrides /\ f \in DOMAIN overrides[k]
                 THEN overrides[k][f] ELSE defaults[k][f]]
     ELSE IF k = "thirdPersonViews"
       THEN [v \in DOMAIN defaults[k] |->
               [f \in DOMAIN defaults[k][v] |->
                  IF /\ k \in DOMAIN overrides
                     /\ v \in DOMAIN overrides[k]
                     /\ f \in DOMAIN overrides[k][v]
                    THEN overrides[k][v][f] ELSE defaults[k][v][f]]]
     ELSE IF k \in DOMAIN overrides THEN overrides[k] ELSE defaults[k]]

UpdateConfig(c, updates) == [c EXCEPT !.config = MergeConfig(c.config, updates)]

\* { ...this.config }
GetConfig(c) == c.config

\* thirdPersonOffsets.get(view): undefined for an id with no entry
Undefined == "undefined"
GetViewOffset(c, view) ==
  IF view \in DOMAIN c.thirdPersonOffsets
    THEN c.thirdPersonOffsets[view] ELSE Undefined

\* mutant: the partial offset is merged into the entry of every view
UpdateViewOffsetAllViews(c, view, offset) ==
  IF view \notin DOMAIN c.thirdPersonOffsets THEN c
  ELSE
    [c EXCEPT !.thirdPersonOffsets =
       [w \in DOMAIN c.thirdPersonOffsets |->
          [f \in DOMAIN c.thirdPersonOffsets[w] |->
             IF f \in DOMAIN offset THEN offset[f]
             ELSE c.thirdPersonOffsets[w][f]]]]

\* { ...currentOffset, ...offset } for a configured view
UpdateViewOffset(c, view, offset) ==
  IF view \notin DOMAIN c.thirdPersonOffsets THEN c
  ELSE
    LET currentOffset == c.thirdPersonOffsets[view]
    IN [c EXCEPT !.thirdPersonOffsets[view] =
          [f \in DOMAIN currentOffset |->
             IF f \in DOMAIN offset THEN offset[f] ELSE currentOffset[f]]]

\* mutant: the resize abandons the transition in flight
HandleResizeEndsTransition(c, viewport) ==
  [c EXCEPT !.projection = Projection(viewport), !.isTransitioning = FALSE]

\* the window's resize listener
HandleResize(c, viewport) == [c EXCEPT !.projection = Projection(viewport)]

\* updateOrthographicFrustum(frustumSize): the frustum of the orthographic
\* camera from the argument and container.clientWidth / clientHeight; the
\* aspect of the perspective cameras is not written
UpdateOrthographicFrustum(c, frustumSize) ==
  [c EXCEPT !.projection =
              Frustum(@.aspect, frustumSize,
                      <<Rect.right - Rect.left, Rect.bottom - Rect.top>>)]

\* removeEventListener is given functions made by a new bind() call, which
\* are not the registered ones; the click listener is not named at all
Dispose(c) ==
  [c EXCEPT !.listeners = @ \ {<<"mousemove", "onMouseMove.bind in dispose">>,
                               <<"pointerlockchange",
                                 "onPointerLockChange.bind in dispose">>,
                               <<"resize", "handleResize.bind in dispose">>},
            !.disposed = TRUE]

\* event e has a listener of the manager
Listening(c, e) == \E l \in c.listeners : l[1] = e

\* mutant: a denied request switches the player controls off
OnLockDeniedDisablesControls(c) ==
  [c EXCEPT !.pendingLock = @ - 1, !.playerControls.enabled = FALSE]

\* .catch(() => {}) of a rejected requestPointerLock()
OnLockDenied(c) == [c EXCEPT !.pendingLock = @ - 1]

\* the container's click listener
OnClick(c) == IF c.currentMode = "player" THEN RequestPointerLock(c) ELSE c

\* the start-up timer's callback
OnStartupTimer(c) ==
  IF c.currentMode = "player" /\ ~c.pointerLocked
    THEN RequestPointerLock(c) ELSE c

----------------------------------------------------------------------------
(* The title screen (src/src/systems/TitleScreen.ts) *)

\* setTimeout(..., 1000) of fadeOut, in ticks
FadeDelay == 2
\* keys of the keydown events
Keys == {"Enter", " ", "Escape"}

\* constructor: isActive = true; setupEventListeners marks the CONTINUE item
\* disabled when there is no save data.  saveData stands for localStorage
\* holding 'garden-persistent-states' or 'garden-camera-state'; timers are the
\* pending setTimeout callbacks of fadeOut, oldest first; onStart and
\* onContinue count the invocations of the two callbacks; last is the last
\* event delivered
TitleScreenConstruct(saveData) ==
  [isActive |-> TRUE,
   saveData |-> saveData,
   continueDisabled |-> ~saveData,
   opacity |-> "1",
   timers |-> <<>>,
   onStart |-> 0,
   onContinue |-> 0,
   disposed |-> FALSE,
   last |-> "constructor"]

CheckSaveData(t) == t.saveData

\* fadeOut(callback): the screen goes inactive at once, the callback runs
\* 1000 ms later
FadeOut(t, callback, clock) ==
  [t EXCEPT !.isActive = FALSE,
            !.opacity = "0",
            !.timers = Append(@, [callback |-> callback,
                                  due |-> clock + FadeDelay])]

\* mutant: the handler does not test isActive
HandleStartNoGuard(t, clock) == FadeOut(t, "onStart", clock)

HandleStart(t, clock) ==
  IF ~t.isActive THEN t ELSE FadeOut(t, "onStart", clock)

HandleContinue(t, clock) ==
  IF ~t.isActive THEN t
  ELSE IF ~CheckSaveData(t) THEN t
  ELSE FadeOut(t, "onContinue", clock)

\* the document's keydown listener
OnKeyDown(t, key, clock) ==
  IF ~t.isActive THEN t
  ELSE IF key = "Enter" \/ key = " " THEN HandleStart(t, clock)
  ELSE t

\* dispose()
DisposeTitleScreen(t) == [t EXCEPT !.isActive = FALSE, !.disposed = TRUE]

\* the oldest pending callback of fadeOut runs: config.onStart() or
\* config.onContinue(), then dispose()
FadeOutCallback(t) ==
  LET callback == Head(t.timers).callback
      t1 == [t EXCEPT !.timers = Tail(@)]
  IN DisposeTitleScreen(
       IF callback = "onStart" THEN [t1 EXCEPT !.onStart = @ + 1]
       ELSE [t1 EXCEPT !.onContinue = @ + 1])

----------------------------------------------------------------------------
(* The state machine *)

\* the observer's record of a call that is not switchCamera; the state
\* before the call is kept for switchCamera only, c is the state after it
Seen(op, c) ==
  [obs EXCEPT !.op = op, !.mode = "none", !.immediate = FALSE, !.pre = c,
              !.args = <<>>]

InitManager ==
  /\ \E defaultMode \in Modes, defaultView \in Views, controlsEnabled \in BOOLEAN :
       /\ cm = Construct(defaultMode, defaultView, controlsEnabled)
       /\ timer = (defaultMode = "player")
       /\ obs = [op |-> "constructor", mode |-> "none", immediate |-> FALSE,
                 pre |-> cm, timed |-> FALSE,
                 outgoing |-> defaultMode, dest |-> defaultMode, landings |-> 0,
                 frame |-> [subject |-> cm.playerPosition,
                            camera |-> cm.position["SystemCamera"],
                            target |-> cm.orbitControls.target,
                            offsetBefore |-> cm.currentCameraOffset,
                            offsetBeforeXZ |-> cm.currentCameraOffsetXZ],
                 subject |-> Null, vector |-> Null, args |-> <<>>,
                 home |-> Null, sample |-> "none"]
  /\ now = 0
  /\ updated = FALSE

\* the camera specifications start after the title screen has been left
Init == InitManager /\ ts = TitleScreenConstruct(FALSE)

\* the wall clock advances
Tick ==
  /\ now < MaxTime
  /\ now' = now + 1
  /\ updated' = FALSE
  /\ UNCHANGED <<cm, timer, obs, ts>>

\* obs.pre is the manager before the call.  Of the last accepted switch:
\* outgoing and dest are the modes it left and requested, timed tells that it
\* was not immediate, landings counts the completions of its transition.
\* obs.home is the system camera's position at the last accepted switch that
\* left system mode, when that switch was timed
SwitchCameraCall(mode, immediate) ==
  LET c == SwitchCamera(cm, mode, immediate, now)
      started == ~cm.isTransitioning /\ c.isTransitioning
      accepted == started \/ c.currentMode # cm.currentMode
  IN /\ started => now + MaxDuration <= MaxTime
     /\ c.pendingLock <= MaxPending
     /\ cm' = c
     /\ obs' = [op |-> "switchCamera", mode |-> mode, immediate |-> immediate,
                pre |-> cm,
                timed |-> IF accepted THEN started ELSE obs.timed,
                outgoing |-> IF accepted THEN cm.currentMode ELSE obs.outgoing,
                dest |-> IF accepted THEN mode ELSE obs.dest,
                landings |-> IF accepted THEN 0 ELSE obs.landings,
                frame |-> obs.frame,
                subject |-> obs.subject, vector |-> obs.vector,
                args |-> <<>>,
                home |-> IF accepted /\ cm.currentMode = "system"
                           THEN IF started THEN cm.position["SystemCamera"]
                                ELSE Null
                           ELSE obs.home,
                sample |-> obs.sample]
     /\ UNCHANGED <<now, updated, timer, ts>>

\* update(deltaTime), called once per animation frame; the clock advances
\* between frames.  deltaTime is passed on to updatePlayerCamera, which does
\* not read it.  obs.frame keeps the subject, the system camera and the
\* orbit target as this call leaves them, and the smoothed offset as it
\* found it
UpdateCall ==
  /\ ~updated
  /\ cm' = Update(cm, now)
  /\ updated' = TRUE
  /\ obs' = [Seen("update", cm') EXCEPT
               !.landings = IF "landed" \in cm'.ran THEN @ + 1 ELSE @,
               !.frame = [subject |-> cm'.playerPosition,
                          camera |-> cm'.position["SystemCamera"],
                          target |-> cm'.orbitControls.target,
                          offsetBefore |-> cm.currentCameraOffset,
                          offsetBeforeXZ |-> cm.currentCameraOffsetXZ]]
  /\ UNCHANGED <<now, timer, ts>>

\* no call follows the last frame of the bounded clock
SetTransitionDurationCall(duration) ==
  /\ now < MaxTime \/ ~updated
  /\ cm' = SetTransitionDuration(cm, duration)
  /\ obs' = Seen("other", cm')
  /\ UNCHANGED <<now, updated, timer, ts>>

\* setPlayerPosition(v) with v.y = y.  obs.subject is the value passed,
\* obs.vector the caller's vector v as it is now
SetPlayerPositionCall(y) ==
  /\ cm' = SetPlayerPosition(cm, y)
  /\ obs' = [Seen("setPlayerPosition", cm') EXCEPT !.subject = y, !.vector = y]
  /\ UNCHANGED <<now, updated, timer, ts>>

SetPlayerHeightCall(height) ==
  /\ cm' = SetPlayerHeight(cm, height)
  /\ obs' = Seen("other", cm')
  /\ UNCHANGED <<now, updated, timer, ts>>

SetPlayerSensitivityCall(sensitivity) ==
  /\ cm' = SetPlayerSensitivity(cm, sensitivity)
  /\ obs' = Seen("other", cm')
  /\ UNCHANGED <<now, updated, timer, ts>>

UpdateOrthographicFrustumCall(frustumSize) ==
  /\ cm' = UpdateOrthographicFrustum(cm, frustumSize)
  /\ obs' = Seen("other", cm')
  /\ UNCHANGED <<now, updated, timer, ts>>

\* v = getPlayerPosition(): the caller holds the returned vector
GetPlayerPositionCall ==
  /\ cm' = cm
  /\ obs' = [Seen("getPlayerPosition", cm') EXCEPT
               !.vector = GetPlayerPosition(cm)]
  /\ UNCHANGED <<now, updated, timer, ts>>

\* the caller writes y to the vector it passed or received; the write
\* reaches playerPosition when that is the same object
CallerWritesVector(y) ==
  /\ obs.vector # Null
  /\ obs.vector # y
  /\ cm' = IF cm.playerPositionRef = "caller"
             THEN [cm EXCEPT !.playerPosition = y] ELSE cm
  /\ obs' = [Seen("callerWrite", cm') EXCEPT !.vector = y]
  /\ UNCHANGED <<now, updated, timer, ts>>

SetThirdPersonViewCall(view) ==
  /\ cm' = SetThirdPersonView(cm, view)
  /\ obs' = Seen("other", cm')
  /\ UNCHANGED <<now, updated, timer, ts>>

CycleThirdPersonViewCall ==
  /\ cm' = CycleThirdPersonView(cm)
  /\ obs' = Seen("cycleThirdPersonView", cm')
  /\ UNCHANGED <<now, updated, timer, ts>>

SetLandSystemCall ==
  /\ cm' = SetLandSystem(cm)
  /\ obs' = Seen("other", cm')
  /\ UNCHANGED <<now, updated, timer, ts>>

\* obs.args are the arguments of the call
UpdateViewOffsetCall(view, offset) ==
  /\ cm' = UpdateViewOffset(cm, view, offset)
  /\ obs' = [Seen("updateViewOffset", cm') EXCEPT !.args = <<view, offset>>]
  /\ UNCHANGED <<now, updated, timer, ts>>

\* updateConfig(updates); obs.pre is the manager before the call, obs.args
\* the argument
UpdateConfigCall(updates) ==
  /\ cm' = UpdateConfig(cm, updates)
  /\ obs' = [Seen("updateConfig", cm) EXCEPT !.args = <<updates>>]
  /\ UNCHANGED <<now, updated, timer, ts>>

\* dispose(); obs.pre is the manager before the call
DisposeCall ==
  /\ cm' = Dispose(cm)
  /\ obs' = Seen("dispose", cm)
  /\ UNCHANGED <<now, updated, timer, ts>>

\* the window is resized; obs.pre is the manager before the event
ResizeEvent(viewport) ==
  /\ Listening(cm, "resize")
  /\ cm' = HandleResize(cm, viewport)
  /\ obs' = Seen("resize", cm)
  /\ UNCHANGED <<now, updated, timer, ts>>

MouseMoveEvent(ev) ==
  LET c == OnMouseMove(cm, ev)
  IN /\ Listening(cm, "mousemove")
     /\ c.playerControls.yaw >= 0 - YawCap
     /\ c.playerControls.yaw <= YawCap
     /\ cm' = c
     /\ obs' = Seen("mousemove", cm')
     /\ UNCHANGED <<now, updated, timer, ts>>

\* the handler took the event as a sample: it wrote the event's position to
\* lastMouseX / lastMouseY
Recorded(c, ev) ==
  c.playerControls.enabled /\ ~c.pointerLocked /\ InsideRect(ev)

\* a mousemove event; obs.sample tells whether the handler recorded the
\* position of this event, the last one delivered
PointerMoveEvent(ev) ==
  LET c == OnMouseMove(cm, ev)
  IN /\ Listening(cm, "mousemove")
     /\ c.playerControls.yaw >= 0 - YawCap
     /\ c.playerControls.yaw <= YawCap
     /\ cm' = c
     /\ obs' = [Seen("mousemove", cm') EXCEPT
                  !.sample = IF Recorded(cm, ev) THEN "recorded" ELSE "dropped"]
     /\ UNCHANGED <<now, updated, timer, ts>>

GamepadCall(sample) ==
  LET c == UpdatePlayerCameraFromGamepad(cm, sample.deltaX, sample.deltaY,
                                         sample.dt60)
  IN /\ c.playerControls.yaw >= 0 - YawCap
     /\ c.playerControls.yaw <= YawCap
     /\ cm' = c
     /\ obs' = Seen("gamepad", cm')
     /\ UNCHANGED <<now, updated, timer, ts>>

ClickEvent ==
  LET c == OnClick(cm)
  IN /\ Listening(cm, "click")
     /\ c.pendingLock <= MaxPending
     /\ cm' = c
     /\ obs' = Seen("click", cm')
     /\ UNCHANGED <<now, updated, timer, ts>>

\* the 100 ms start-up timer fires
StartupTimerFires ==
  LET c == OnStartupTimer(cm)
  IN /\ timer
     /\ now >= 1
     /\ c.pendingLock <= MaxPending
     /\ cm' = c
     /\ timer' = FALSE
     /\ obs' = Seen("other", cm')
     /\ UNCHANGED <<now, updated, ts>>

\* the host grants a pending requestPointerLock()
PointerLockGranted ==
  /\ cm.pendingLock > 0
  /\ cm' = [cm EXCEPT !.pendingLock = @ - 1, !.pointerLocked = TRUE]
  /\ obs' = Seen("other", cm')
  /\ UNCHANGED <<now, updated, timer, ts>>

\* the host denies a pending requestPointerLock(); the rejection is caught.
\* A request made while the container holds the lock is not denied.
\* obs.pre is the manager before the denial
PointerLockDenied ==
  /\ cm.pendingLock > 0
  /\ ~cm.pointerLocked
  /\ cm' = OnLockDenied(cm)
  /\ obs' = Seen("denied", cm)
  /\ UNCHANGED <<now, updated, timer, ts>>

\* the user leaves pointer lock (Escape)
PointerLockLost ==
  /\ cm.pointerLocked
  /\ cm' = [cm EXCEPT !.pointerLocked = FALSE]
  /\ obs' = Seen("other", cm')
  /\ UNCHANGED <<now, updated, timer, ts>>

\* a click on the START item
StartClick ==
  LET t == HandleStart(ts, now)
  IN /\ Len(t.timers) <= MaxTimers
     /\ ts' = [t EXCEPT !.last = "start"]
     /\ UNCHANGED <<cm, now, updated, timer, obs>>

\* a click on the CONTINUE item; the 'disabled' class does not stop the event
ContinueClick ==
  LET t == HandleContinue(ts, now)
  IN /\ Len(t.timers) <= MaxTimers
     /\ ts' = [t EXCEPT !.last = "continue"]
     /\ UNCHANGED <<cm, now, updated, timer, obs>>

KeyDownEvent(key) ==
  LET t == OnKeyDown(ts, key, now)
  IN /\ Len(t.timers) <= MaxTimers
     /\ ts' = [t EXCEPT !.last = "key"]
     /\ UNCHANGED <<cm, now, updated, timer, obs>>

\* the oldest fadeOut timer has run out and its callback is called
FadeTimerFires ==
  /\ ts.timers # <<>>
  /\ now >= Head(ts.timers).due
  /\ ts' = [FadeOutCallback(ts) EXCEPT !.last = "timer"]
  /\ UNCHANGED <<cm, now, updated, timer, obs>>

\* dispose() called by the owner of the screen
DisposeTitleScreenCall ==
  /\ ts' = [DisposeTitleScreen(ts) EXCEPT !.last = "dispose"]
  /\ UNCHANGED <<cm, now, updated, timer, obs>>

\* another page of the same origin writes or clears the saved game
StorageChanges(saveData) ==
  /\ ts.saveData # saveData
  /\ ts' = [ts EXCEPT !.saveData = saveData, !.last = "storage"]
  /\ UNCHANGED <<cm, now, updated, timer, obs>>

\* Modes, transitions and pointer capture
Next ==
  \/ Tick
  \/ \E mode \in Modes, immediate \in BOOLEAN : SwitchCameraCall(mode, immediate)
  \/ UpdateCall
  \/ \E view \in Views : SetThirdPersonViewCall(view)
  \/ ClickEvent
  \/ StartupTimerFires
  \/ PointerLockGranted
  \/ PointerLockDenied
  \/ PointerLockLost

Spec == Init /\ [][Next]_vars

\* Transition timing: update is called every frame while the clock advances
NextTime ==
  \/ Tick
  \/ \E mode \in Modes, immediate \in BOOLEAN : SwitchCameraCall(mode, immediate)
  \/ UpdateCall
  \/ \E duration \in Durations : SetTransitionDurationCall(duration)

SpecTime == Init /\ [][NextTime]_vars

\* Transition timing under fairness: the clock advances and every clock
\* reading gets its frame.  UpdateCall is the only action that sets updated,
\* and it can run exactly when updated is FALSE, so the fairness of the frame
\* is stated on the step ~updated /\ updated' = TRUE
NextLive ==
  \/ Tick
  \/ \E mode \in Modes : SwitchCameraCall(mode, FALSE)
  \/ UpdateCall
  \/ \E duration \in Durations : SetTransitionDurationCall(duration)

SpecLive ==
  Init /\ [][NextLive]_vars /\ WF_vars(Tick)
    /\ WF_updated(~updated /\ updated' = TRUE)

\* Pointer and gamepad input
NextInput ==
  \/ \E mode \in Modes : SwitchCameraCall(mode, TRUE)
  \/ UpdateCall
  \/ \E ev \in InputEvents : MouseMoveEvent(ev)
  \/ \E sample \in InputSamples : GamepadCall(sample)
  \/ PointerLockGranted
  \/ PointerLockLost

SpecInput == Init /\ [][NextInput]_vars

\* The input handlers alone, between two frames
NextPointer ==
  \/ \E mode \in Modes : SwitchCameraCall(mode, TRUE)
  \/ \E ev \in MouseEvents : MouseMoveEvent(ev)
  \/ \E sample \in GamepadSamples : GamepadCall(sample)
  \/ PointerLockGranted
  \/ PointerLockLost

SpecPointer == Init /\ [][NextPointer]_vars

\* The third-person follow
NextFollow ==
  \/ Tick
  \/ SwitchCameraCall("player", TRUE)
  \/ UpdateCall
  \/ \E y \in PlayerYs : SetPlayerPositionCall(y)
  \/ \E view \in ViewIds : SetThirdPersonViewCall(view)
  \/ CycleThirdPersonViewCall
  \/ \E view \in Views, offset \in OffsetPatches :
       UpdateViewOffsetCall(view, offset)

SpecFollow == Init /\ [][NextFollow]_vars

\* The third-person follow while the view turns, over two frames
NextTurn ==
  \/ (Tick /\ now < MaxSubjectTime)
  \/ SwitchCameraCall("player", TRUE)
  \/ UpdateCall
  \/ \E y \in PlayerYs : SetPlayerPositionCall(y)
  \/ CycleThirdPersonViewCall
  \/ \E view \in Views, offset \in OffsetPatches :
       UpdateViewOffsetCall(view, offset)
  \/ \E sample \in FollowSamples : GamepadCall(sample)

SpecTurn == Init /\ [][NextTurn]_vars

\* The orbit camera and the lighting consumer
NextLight ==
  \/ Tick
  \/ \E mode \in Modes : SwitchCameraCall(mode, TRUE)
  \/ UpdateCall
  \/ \E y \in PlayerYs : SetPlayerPositionCall(y)
  \/ \E height \in PlayerHeights : SetPlayerHeightCall(height)
  \/ SetLandSystemCall
  \/ \E updates \in ConfigUpdates : UpdateConfigCall(updates)

SpecLight == Init /\ [][NextLight]_vars

\* Listeners: input and resize events before and after dispose()
NextEvents ==
  \/ \E mode \in Modes, immediate \in BOOLEAN : SwitchCameraCall(mode, immediate)
  \/ UpdateCall
  \/ \E ev \in ListenerEvents : MouseMoveEvent(ev)
  \/ ClickEvent
  \/ \E viewport \in Viewports : ResizeEvent(viewport)
  \/ DisposeCall
  \/ PointerLockGranted
  \/ PointerLockLost

SpecEvents == Init /\ [][NextEvents]_vars

\* Resize events between the frames of a transition
NextResize ==
  \/ Tick
  \/ \E mode \in Modes, immediate \in BOOLEAN : SwitchCameraCall(mode, immediate)
  \/ UpdateCall
  \/ \E viewport \in Viewports : ResizeEvent(viewport)
  \/ \E frustumSize \in FrustumSizes : UpdateOrthographicFrustumCall(frustumSize)

SpecResize == Init /\ [][NextResize]_vars

\* The subject position under every kind of operation
NextSubject ==
  \/ (Tick /\ now < MaxSubjectTime)
  \/ \E mode \in Modes : SwitchCameraCall(mode, TRUE)
  \/ UpdateCall
  \/ \E y \in PlayerYs : SetPlayerPositionCall(y)
  \/ GetPlayerPositionCall
  \/ CallerWritesVector(InitialPlayerY)
  \/ SetThirdPersonViewCall("shoulder")
  \/ \E ev \in SubjectEvents : MouseMoveEvent(ev)
  \/ \E sample \in SubjectSamples : GamepadCall(sample)

SpecSubject == Init /\ [][NextSubject]_vars

\* Runtime tuning of the view offsets, over two frames
NextOffsets ==
  \/ (Tick /\ now < MaxSubjectTime)
  \/ SwitchCameraCall("player", TRUE)
  \/ UpdateCall
  \/ \E view \in Views : SetThirdPersonViewCall(view)
  \/ \E view \in ViewIds, offset \in ViewPatches :
       UpdateViewOffsetCall(view, offset)

SpecOffsets == Init /\ [][NextOffsets]_vars

\* The baseline of the pointer position without pointer capture
NextBaseline ==
  \/ \E mode \in Modes : SwitchCameraCall(mode, TRUE)
  \/ \E ev \in ListenerEvents : PointerMoveEvent(ev)
  \/ \E sensitivity \in Sensitivities : SetPlayerSensitivityCall(sensitivity)
  \/ PointerLockGranted
  \/ PointerLockLost

SpecBaseline == Init /\ [][NextBaseline]_vars

\* The configuration and the per-view offsets at run time
NextConfig ==
  \/ \E view \in Views, offset \in ViewPatches :
       UpdateViewOffsetCall(view, offset)
  \/ \E updates \in ViewConfigUpdates : UpdateConfigCall(updates)

SpecConfig == Init /\ [][NextConfig]_vars

\* The title screen: clicks, key presses, the fade-out timer and the clock
InitTitle ==
  /\ InitManager
  /\ cm = Construct("player", "overhead", TRUE)
  /\ \E saveData \in BOOLEAN : ts = TitleScreenConstruct(saveData)

NextTitle ==
  \/ Tick
  \/ StartClick
  \/ ContinueClick
  \/ \E key \in Keys : KeyDownEvent(key)
  \/ FadeTimerFires
  \/ DisposeTitleScreenCall
  \/ \E saveData \in BOOLEAN : StorageChanges(saveData)

SpecTitle == InitTitle /\ [][NextTitle]_vars

----------------------------------------------------------------------------
(* Properties *)

\* the last call was switchCamera(obs.mode, obs.immediate) and passed both
\* rejection tests
AcceptedSwitch ==
  /\ obs.op = "switchCamera"
  /\ obs.mode # obs.pre.currentMode
  /\ ~obs.pre.isTransitioning

\* the last call was an update that completed a transition
Landed == obs.op = "update" /\ "landed" \in cm.ran

\* a <= b on progress values; false when either is NaN
ProgressLE(a, b) == ~IsNaN(a) /\ ~IsNaN(b) /\ a[1] * b[2] <= b[1] * a[2]

\* C1: switchCamera(m, immediate) with m the current mode changes nothing:
\* the transition flag, start time and captured poses, the mode, the active
\* camera, the control flags, the pointer-lock state and the pending
\* pointer-lock requests are those before the call.
C1_SameModeSwitchIsNoOp ==
  (obs.op = "switchCamera" /\ obs.mode = obs.pre.currentMode) => cm = obs.pre

C1_Witness ==
  /\ obs.op = "switchCamera"
  /\ obs.mode = "player"
  /\ obs.pre.currentMode = "player"
  /\ obs.immediate
  /\ ~obs.pre.isTransitioning
  /\ ~obs.pre.pointerLocked

\* C2: a switchCamera call made while a transition is in flight changes
\* nothing, and the transition in flight, when it completes, lands on the
\* mode requested by the switch that started it.
C2_SwitchDuringTransitionDropped ==
  /\ (obs.op = "switchCamera" /\ obs.pre.isTransitioning) => cm = obs.pre
  /\ cm.isTransitioning => cm.currentMode = obs.dest
  /\ Landed => cm.currentMode = obs.dest

C2_Witness ==
  /\ obs.op = "switchCamera"
  /\ obs.pre.isTransitioning
  /\ obs.mode # obs.pre.currentMode
  /\ obs.immediate
  /\ obs.pre.progress # NoSample

\* C3 as claimed: a transition in flight always ends, whatever
\* transitionDuration holds.
C3_AlwaysTerminates == cm.isTransitioning ~> ~cm.isTransitioning

\* C3 amended: the completion step runs at most once per transition and has
\* run exactly once when the transition is over; a transition in flight
\* ends unless transitionDuration becomes negative.
C3_TerminatesOnce ==
  /\ [](/\ obs.landings <= 1
        /\ cm.isTransitioning => (obs.timed /\ obs.landings = 0)
        /\ (obs.timed /\ ~cm.isTransitioning) => obs.landings = 1)
  /\ (cm.isTransitioning /\ cm.transitionDuration >= 0)
       ~> (~cm.isTransitioning \/ cm.transitionDuration < 0)

C3_Witness ==
  /\ Landed
  /\ obs.landings = 1
  /\ cm.transitionDuration = 0
  /\ now > cm.transitionStart

\* C4: within one transition the progress computed by an update call lies
\* in [0, 1] and is not less than the progress computed by the update call
\* before it.
C4_ProgressMonotone ==
  [][(cm.isTransitioning /\ ~updated /\ updated') =>
       /\ ProgressLE(<<0, 1>>, cm'.progress)
       /\ ProgressLE(cm'.progress, <<1, 1>>)
       /\ cm.progress # NoSample => ProgressLE(cm.progress, cm'.progress)]_vars

\* C5: an update call that runs the transition engine runs neither
\* orbitControls.update nor the third-person follow.
C5_TransitionUpdateRunsNoController ==
  (obs.op = "update" /\ "transition" \in cm.ran) =>
    ("orbit" \notin cm.ran /\ "follow" \notin cm.ran)

\* C6: while a transition is in flight getCurrentMode() reports the mode
\* that was current before the switch.
C6_ModePendingUntilLanding == cm.isTransitioning => cm.currentMode = obs.outgoing

\* C7: after an accepted switchCamera(m, true) the mode is m, the active
\* camera is m's camera, the orbit controls are enabled iff m is system, the
\* player controls iff m is player, and no transition is in flight.
C7_ImmediateSwitchTakesEffect ==
  (AcceptedSwitch /\ obs.immediate) =>
    /\ cm.currentMode = obs.mode
    /\ cm.currentCamera =
         (IF obs.mode = "system" THEN "SystemCamera" ELSE "PlayerCamera")
    /\ cm.orbitControls.enabled = (obs.mode = "system")
    /\ cm.playerControls.enabled = (obs.mode = "player")
    /\ ~cm.isTransitioning

C7_Witness ==
  /\ AcceptedSwitch
  /\ obs.immediate
  /\ obs.mode = "system"
  /\ obs.pre.playerControls.enabled
  /\ obs.pre.currentCamera = "OrthographicCamera"

\* C8: at the end of the update call that completes a transition no
\* transition is in flight, the mode is the destination, the active camera
\* is a camera of the destination mode, and the orbit controls are enabled
\* iff the destination is system, the player controls iff it is player.
C8_LandingDisposition ==
  Landed =>
    /\ ~cm.isTransitioning
    /\ cm.currentMode = obs.dest
    /\ (obs.dest = "system") => cm.currentCamera = "SystemCamera"
    /\ (obs.dest = "player") =>
         cm.currentCamera \in {"PlayerCamera", "OrthographicCamera"}
    /\ cm.orbitControls.enabled = (obs.dest = "system")
    /\ cm.playerControls.enabled = (obs.dest = "player")

C8_Witness ==
  /\ Landed
  /\ obs.dest = "player"
  /\ cm.currentCamera = "OrthographicCamera"
  /\ "follow" \in cm.ran

\* C9: when no transition is in flight the active camera is the system
\* camera iff the mode is system (and so a player-view camera iff it is
\* player).
C9_CameraBelongsToMode ==
  ~cm.isTransitioning =>
    (cm.currentMode = "system" <=> cm.currentCamera = "SystemCamera")

\* C10: playerControls.pitch lies in [-pi/2, pi/2].
C10_PitchClamped ==
  /\ cm.playerControls.pitch >= 0 - HalfPi
  /\ cm.playerControls.pitch <= HalfPi

\* HalfPi is no multiple of the input step: the clamp has cut a step short
C10_Witness ==
  /\ obs.op = "gamepad"
  /\ cm.playerControls.pitch = HalfPi
  /\ cm.playerControls.yaw # 0

\* the last call was an update that ran the third-person follow
Followed == obs.op = "update" /\ "follow" \in cm.ran

\* C11: after an update call made in system mode with no transition in
\* flight and a lighting consumer linked, the intensity the consumer last
\* received is 0.
C11_SystemModePublishesZero ==
  (/\ obs.op = "update"
   /\ cm.currentMode = "system"
   /\ ~cm.isTransitioning
   /\ cm.landSystem.linked
   /\ cm.landSystem.intensity # Null) => cm.landSystem.intensity = 0

\* C12: between two consecutive update calls in system mode that run the
\* orbit controls only, the system camera and the orbit target both move by
\* the displacement of the subject.
C12_OrbitFollowsSubject ==
  [][(~updated /\ updated' /\ cm.ran = {"orbit"} /\ cm'.ran = {"orbit"}) =>
       /\ cm'.position["SystemCamera"] =
            obs.frame.camera + (cm'.playerPosition - obs.frame.subject)
       /\ cm'.orbitControls.target =
            obs.frame.target + (cm'.playerPosition - obs.frame.subject)]_vars

\* the base offset of the current view rotated about the y axis by the
\* current yaw: its <<x, z>>; the rotation keeps y
RotatedBaseXZ(c) ==
  RotateY(c.thirdPersonOffsets[c.currentThirdPersonView].positionXZ,
          c.playerControls.yaw)

\* C13: after an update call that ran the follow for a view whose smoothing
\* is 1, the smoothed offset equals the target offset, the view's base
\* offset rotated by the current yaw, whatever the offset was before the
\* call.
C13_NoLagAtSmoothingOne ==
  (Followed /\
   cm.thirdPersonOffsets[cm.currentThirdPersonView].smoothing = <<1, 1>>) =>
    /\ cm.targetCameraOffset =
         cm.thirdPersonOffsets[cm.currentThirdPersonView].position
    /\ cm.targetCameraOffsetXZ = RotatedBaseXZ(cm)
    /\ cm.currentCameraOffset = cm.targetCameraOffset
    /\ cm.currentCameraOffsetXZ = cm.targetCameraOffsetXZ

C13_Witness ==
  /\ Followed
  /\ cm.thirdPersonOffsets[cm.currentThirdPersonView].smoothing = <<1, 1>>
  /\ cm.playerControls.yaw # 0
  /\ obs.frame.offsetBefore # 0
  /\ obs.frame.offsetBefore # cm.currentCameraOffset
  /\ obs.frame.offsetBeforeXZ # cm.currentCameraOffsetXZ
  /\ cm.currentCameraOffset = cm.targetCameraOffset
  /\ cm.currentCameraOffsetXZ = cm.targetCameraOffsetXZ

\* C14: after an update call that ran the follow, the active camera is at
\* the subject position plus the smoothed offset, and at the subject
\* position plus the view's base offset once the offset has reached its
\* target, the base offset rotated by the current yaw.  The subject is on
\* the y axis.
C14_CameraAtSubjectPlusOffset ==
  Followed =>
    /\ cm.position[cm.currentCamera] = cm.playerPosition + cm.currentCameraOffset
    /\ cm.positionXZ[cm.currentCamera] = cm.currentCameraOffsetXZ
    /\ (/\ cm.currentCameraOffset = cm.targetCameraOffset
        /\ cm.currentCameraOffsetXZ = cm.targetCameraOffsetXZ) =>
         /\ cm.position[cm.currentCamera] =
              cm.playerPosition +
              cm.thirdPersonOffsets[cm.currentThirdPersonView].position
         /\ cm.positionXZ[cm.currentCamera] = RotatedBaseXZ(cm)

C14_Witness ==
  /\ Followed
  /\ cm.playerPosition # InitialPlayerY
  /\ cm.playerControls.yaw # 0
  /\ cm.currentCameraOffset # cm.targetCameraOffset
  /\ obs.frame.offsetBefore # 0
  /\ cm.position[cm.currentCamera] = cm.playerPosition + cm.currentCameraOffset
  /\ cm.positionXZ[cm.currentCamera] = cm.currentCameraOffsetXZ
  /\ cm.positionXZ[cm.currentCamera] # <<0, 0>>

\* C15: the current third-person view always has an entry in the
\* view-offset table: setThirdPersonView with an id that has none leaves the
\* previous view current.
C15_ViewStaysConfigured ==
  cm.currentThirdPersonView \in DOMAIN cm.thirdPersonOffsets

\* C16: a denied pointer-lock request changes nothing but the number of
\* unsettled requests: mode, control flags and active camera are those of a
\* granted request, the lock is not held, and a pointer-move event that
\* follows is handled by the non-captured path (it records the absolute
\* position when inside the container and is ignored when outside).
C16_DenialChangesNothing ==
  obs.op = "denied" =>
    /\ cm.pendingLock = obs.pre.pendingLock - 1
    /\ [cm EXCEPT !.pendingLock = obs.pre.pendingLock] = obs.pre
    /\ ~cm.pointerLocked
    /\ cm.playerControls.enabled =>
         \A ev \in MouseEvents :
           IF InsideRect(ev)
             THEN /\ OnMouseMove(cm, ev).lastMouseX = ev.clientX
                  /\ OnMouseMove(cm, ev).lastMouseY = ev.clientY
             ELSE OnMouseMove(cm, ev) = cm

C16_Witness ==
  /\ obs.op = "denied"
  /\ cm.currentMode = "player"
  /\ cm.playerControls.enabled
  /\ cm.pendingLock = 0
  /\ ~timer

\* C17: a step that enters player mode while the container does not hold
\* the lock issues a pointer-lock request, whether the step is an accepted
\* immediate switchCamera('player', true) or the update call that completes
\* a transition to player mode.
C17_PlayerEntryRequestsCapture ==
  [][/\ (/\ obs'.op = "switchCamera" /\ obs'.mode = "player" /\ obs'.immediate
         /\ obs'.pre = cm /\ cm' # cm
         /\ ~cm.pointerLocked) => cm'.pendingLock = cm.pendingLock + 1
     /\ (/\ ~updated /\ updated'
         /\ "landed" \in cm'.ran /\ cm'.currentMode = "player"
         /\ ~cm.pointerLocked) => cm'.pendingLock = cm.pendingLock + 1]_vars

\* C18: in system mode with no transition in flight the container does not
\* hold the pointer lock.
C18_NoCaptureInSystemMode ==
  (cm.currentMode = "system" /\ ~cm.isTransitioning) => ~cm.pointerLocked

\* the events the manager listens to
ListenerOps == {"mousemove", "click", "resize"}

\* C19: once dispose() has been called the container does not hold the
\* pointer lock, and pointer-move, click and resize events change nothing
\* of the manager.
C19_DisposedManagerIgnoresEvents ==
  /\ [](cm.disposed => ~cm.pointerLocked)
  /\ [][(cm.disposed /\ obs'.op \in ListenerOps) => cm' = cm]_vars

\* C20: a resize event changes the projection parameters only, in every
\* state, a transition in flight included, and handling the same size again
\* changes nothing.
C20_ResizeChangesProjectionOnly ==
  obs.op = "resize" =>
    /\ [cm EXCEPT !.projection = obs.pre.projection] = obs.pre
    /\ HandleResize(cm, cm.projection.aspect) = cm

C20_Witness ==
  /\ obs.op = "resize"
  /\ cm.isTransitioning
  /\ cm.progress # NoSample
  /\ cm.projection # obs.pre.projection

\* C21: the stored subject position changes in setPlayerPosition only and
\* is the value last passed to it, whatever update, switchCamera, input and
\* view operations follow; writes of the caller to the vector it passed, or
\* to the vector getPlayerPosition returned, do not reach it.
C21_SubjectSetBySetterOnly ==
  /\ [](obs.subject # Null => cm.playerPosition = obs.subject)
  /\ [][cm'.playerPosition # cm.playerPosition =>
         obs'.op = "setPlayerPosition"]_vars

C21_Witness ==
  /\ Followed
  /\ obs.subject = 7000
  /\ cm.playerPosition = 7000
  /\ obs.vector = InitialPlayerY
  /\ cm.playerControls.yaw # 0
  /\ cm.playerControls.pitch # 0

\* C22: updateViewOffset(v, partial) for a configured view v replaces, in
\* v's entry, exactly the fields named in partial and keeps the others,
\* leaves the other view's entry as it was, and the follow updates that come
\* after it compute the target and the smoothed offset from the entry as it
\* is now; for an id with no entry it changes nothing and getViewOffset
\* returns undefined.
C22_PartialOffsetMerged ==
  /\ [][obs'.op = "updateViewOffset" =>
         LET view == obs'.args[1]
             partial == obs'.args[2]
             old == cm.thirdPersonOffsets
             new == cm'.thirdPersonOffsets
         IN IF view \in DOMAIN old
              THEN /\ DOMAIN new = DOMAIN old
                   /\ DOMAIN GetViewOffset(cm', view) = DOMAIN old[view]
                   /\ \A f \in DOMAIN old[view] :
                        GetViewOffset(cm', view)[f] =
                          IF f \in DOMAIN partial THEN partial[f]
                          ELSE old[view][f]
                   /\ \A w \in DOMAIN old \ {view} : new[w] = old[w]
              ELSE /\ cm' = cm
                   /\ GetViewOffset(cm', view) = Undefined]_vars
  /\ [](Followed =>
         LET entry == GetViewOffset(cm, cm.currentThirdPersonView)
         IN /\ cm.targetCameraOffset = entry.position
            /\ cm.targetCameraOffsetXZ =
                 RotateY(entry.positionXZ, cm.playerControls.yaw)
            /\ cm.currentCameraOffset =
                 Lerp(obs.frame.offsetBefore, entry.position, entry.smoothing)
            /\ cm.currentCameraOffsetXZ =
                 LerpXZ(obs.frame.offsetBeforeXZ, cm.targetCameraOffsetXZ,
                        entry.smoothing))

C22_Witness ==
  /\ Followed
  /\ cm.currentThirdPersonView = "overhead"
  /\ cm.thirdPersonOffsets["overhead"] =
       [DefaultViews["overhead"] EXCEPT !.position = 3000,
                                        !.positionXZ = <<0, 0>>]
  /\ cm.thirdPersonOffsets["shoulder"] = DefaultViews["shoulder"]
  /\ cm.targetCameraOffset = 3000
  /\ obs.frame.offsetBefore > 3000

\* C23: after updateConfig getConfig() returns the named spotlight settings
\* with their new values and every other setting as it was, and an update
\* call in player mode that publishes the light publishes the intensity and
\* the height of the configuration as it is now.
C23_ConfigUpdateReachesLight ==
  /\ obs.op = "updateConfig" =>
       LET updates == obs.args[1]
       IN /\ \A f \in DOMAIN updates.spotlight :
               GetConfig(cm).spotlight[f] = updates.spotlight[f]
          /\ \A f \in DOMAIN GetConfig(cm).spotlight \ DOMAIN updates.spotlight :
               GetConfig(cm).spotlight[f] = GetConfig(obs.pre).spotlight[f]
          /\ GetConfig(cm).transitionDuration =
               GetConfig(obs.pre).transitionDuration
  /\ (obs.op = "update" /\ "published" \in cm.ran) =>
       /\ cm.landSystem.position =
            cm.playerPosition + GetConfig(cm).spotlight.height
       /\ cm.landSystem.intensity = GetConfig(cm).spotlight.intensity

\* the view that follows v in the documented cycle
DocumentedNext(v) ==
  DocumentedCycle[((IndexOf(DocumentedCycle, v) + 1) % Len(DocumentedCycle)) + 1]

\* C24: a cycleThirdPersonView call changes the view to the next one of the
\* documented cycle Shoulder, Overhead, Far, Cinematic, so that every view
\* is visited and as many calls as there are views lead back to the first.
C24_CycleFollowsDocumentedOrder ==
  [][obs'.op = "cycleThirdPersonView" =>
       /\ cm'.currentThirdPersonView # cm.currentThirdPersonView
       /\ cm'.currentThirdPersonView =
            DocumentedNext(cm.currentThirdPersonView)]_vars

\* C25: an update call made in player mode with a lighting consumer linked
\* publishes the light to the consumer: the position is the subject
\* position of this call raised by the configured height, the direction
\* is the unit vector that leads from that position to the aim point above
\* the subject, and the intensity is the light's.
C25_PlayerUpdatePublishesLight ==
  (obs.op = "update" /\ cm.currentMode = "player" /\ cm.landSystem.linked) =>
    /\ "published" \in cm.ran
    /\ cm.landSystem.position = cm.playerPosition + cm.config.spotlight.height
    /\ cm.landSystem.direction =
         Normalize(<<(cm.playerPosition + AimHeight) - cm.landSystem.position,
                     cm.config.spotlight.offset>>)
    /\ cm.landSystem.intensity = cm.playerSpotlight.intensity

\* the pointer displacement of event ev, in pixels: the raw movement when
\* the pointer is captured, the difference to the last recorded position
\* when it is not
Displacement(c, ev) ==
  IF c.pointerLocked THEN <<ev.movementX, ev.movementY>>
  ELSE <<ev.clientX - c.lastMouseX, ev.clientY - c.lastMouseY>>

\* event ev is converted to yaw and pitch: the controls are enabled, and
\* without capture the pointer is inside the container and a position has
\* been recorded before
Converted(c, ev) ==
  /\ c.playerControls.enabled
  /\ ~c.pointerLocked =>
       (InsideRect(ev) /\ c.lastMouseX # Null /\ c.lastMouseY # Null)

\* C26: a pointer-move event that is converted changes yaw by -dx *
\* sensitivity and pitch, before the clamp, by -dy * sensitivity, where
\* (dx, dy) is the displacement in pixels, with and without capture.
C26_YawPerPixel ==
  [][obs'.op = "mousemove" =>
       \A ev \in MouseEvents :
         (Converted(cm, ev) /\ cm' = OnMouseMove(cm, ev)) =>
           LET d == Displacement(cm, ev)
               sensitivity == cm.playerControls.sensitivity
           IN /\ cm'.playerControls.yaw =
                   cm.playerControls.yaw - d[1] * 10 * sensitivity
              /\ cm'.playerControls.pitch =
                   ClampPitch(cm.playerControls.pitch - d[2] * 10 * sensitivity)]_vars

\* C27: without capture, the first pointer-move event inside the container
\* that the enabled controls receive records its position and changes
\* neither yaw nor pitch; an event that finds a recorded position changes
\* yaw when it differs from it in x, and pitch when it differs in y (unless
\* the clamp holds pitch at its bound).
C27_FirstSampleIsBaseline ==
  /\ [](cm.lastMouseX = Null <=> cm.lastMouseY = Null)
  /\ [][obs'.op = "mousemove" =>
         \A ev \in MouseEvents :
           (/\ cm.playerControls.enabled
            /\ ~cm.pointerLocked
            /\ InsideRect(ev)
            /\ cm' = OnMouseMove(cm, ev)) =>
             /\ cm'.lastMouseX = ev.clientX
             /\ cm'.lastMouseY = ev.clientY
             /\ IF cm.lastMouseX = Null
                  THEN /\ cm'.playerControls.yaw = cm.playerControls.yaw
                       /\ cm'.playerControls.pitch = cm.playerControls.pitch
                  ELSE /\ ev.clientX # cm.lastMouseX =>
                            cm'.playerControls.yaw # cm.playerControls.yaw
                       /\ ev.clientY # cm.lastMouseY =>
                            \/ cm'.playerControls.pitch # cm.playerControls.pitch
                            \/ cm'.playerControls.pitch \in {HalfPi, 0 - HalfPi}]_vars

\* the second sample: the pointer came from x = 2000 to x = 0
C27_Witness ==
  /\ obs.op = "mousemove"
  /\ ~cm.pointerLocked
  /\ cm.pendingLock = 0
  /\ cm.lastMouseX = 0
  /\ cm.lastMouseY = 2000
  /\ cm.playerControls.yaw = AngleStep
  /\ cm.playerControls.pitch = 0

\* pitch p is strictly inside the clamp's interval
Unclamped(p) == p > 0 - HalfPi /\ p < HalfPi

\* C28: in player mode with the controls enabled, a pointer-move event and
\* a gamepad sample applied in either order give the same yaw, and the same
\* pitch when no value on the way reaches the clamp; the change each source
\* makes to yaw is the same before and after the other source has acted.
C28_InputsCompose ==
  (cm.currentMode = "player" /\ cm.playerControls.enabled) =>
    \A ev \in MouseEvents, sample \in GamepadSamples :
      LET pointer == OnMouseMove(cm, ev)
          gamepad == UpdatePlayerCameraFromGamepad(cm, sample.deltaX,
                                                   sample.deltaY, sample.dt60)
          pointerFirst ==
            UpdatePlayerCameraFromGamepad(pointer, sample.deltaX,
                                          sample.deltaY, sample.dt60)
          gamepadFirst == OnMouseMove(gamepad, ev)
      IN /\ pointerFirst.playerControls.yaw = gamepadFirst.playerControls.yaw
         /\ gamepadFirst.playerControls.yaw - gamepad.playerControls.yaw =
              pointer.playerControls.yaw - cm.playerControls.yaw
         /\ pointerFirst.playerControls.yaw - pointer.playerControls.yaw =
              gamepad.playerControls.yaw - cm.playerControls.yaw
         /\ (/\ Unclamped(pointer.playerControls.pitch)
             /\ Unclamped(gamepad.playerControls.pitch)
             /\ Unclamped(pointerFirst.playerControls.pitch)
             /\ Unclamped(gamepadFirst.playerControls.pitch)) =>
              pointerFirst.playerControls.pitch =
                gamepadFirst.playerControls.pitch

\* both sources have acted, the gamepad last
C28_Witness ==
  /\ obs.op = "gamepad"
  /\ cm.currentMode = "player"
  /\ cm.playerControls.enabled
  /\ cm.lastMouseX = 2000
  /\ cm.lastMouseY = 0
  /\ cm.playerControls.yaw = 0 - AngleStep
  /\ cm.playerControls.pitch = AngleStep
  /\ ~cm.pointerLocked

\* C29: a pointer-move event or a gamepad update changes nothing of the
\* manager but yaw, pitch and the last pointer position: the cameras, the
\* smoothed and target offsets, the spotlight, the mode and the transition
\* are as before, and change in update calls only.
C29_InputOnlyStages ==
  [][obs'.op \in {"mousemove", "gamepad"} =>
       [cm' EXCEPT !.playerControls.yaw = cm.playerControls.yaw,
                   !.playerControls.pitch = cm.playerControls.pitch,
                   !.lastMouseX = cm.lastMouseX,
                   !.lastMouseY = cm.lastMouseY] = cm]_vars

\* input after a frame of the follow: the pose is still the frame's
C29_Witness ==
  /\ obs.op = "mousemove"
  /\ "follow" \in cm.ran
  /\ cm.pointerLocked
  /\ cm.playerControls.yaw # 0
  /\ cm.playerControls.pitch # 0
  /\ cm.position[cm.currentCamera] = cm.playerPosition + cm.currentCameraOffset

\* clamp(elapsed / duration, 0, 1); 0 / 0 has no value
ClampedProgress(elapsed, duration) ==
  IF duration = 0
    THEN IF elapsed = 0 THEN NaNProgress ELSE <<1, 1>>
    ELSE IF duration < 0 \/ elapsed <= 0 THEN <<0, 1>>
    ELSE IF elapsed >= duration THEN <<1, 1>>
    ELSE <<elapsed, duration>>

\* C30: the position a transition update writes to the interpolated camera
\* is from + (to - from) * e with e = 1 - (1 - p)^3 and p = elapsed /
\* duration clamped to [0, 1]; e is 0, 7/8 and 1 at p = 0, 1/2 and 1, and
\* the update that completes the transition writes the to-position.
C30_EasedInterpolation ==
  /\ [](/\ EasedProgress(<<0, 1>>) = <<0, 1>>
        /\ EasedProgress(<<1, 2>>) = <<7, 8>>
        /\ EasedProgress(<<1, 1>>) = <<1, 1>>)
  /\ [][(cm.isTransitioning /\ ~updated /\ updated') =>
         LET written == UpdateCameraTransition(cm, now).position[cm.currentCamera]
             p == ClampedProgress(now - cm.transitionStart, cm.transitionDuration)
         IN /\ written = Lerp(cm.transitionFromPosition, cm.transitionToPosition,
                              EasedProgress(p))
            /\ "landed" \in cm'.ran => written = cm.transitionToPosition]_vars

\* the pose of a transition at clock reading t: lerpVectors of the captured
\* poses at the eased progress of the elapsed wall-clock time
TransitionPose(c, t) ==
  Lerp(c.transitionFromPosition, c.transitionToPosition,
       EasedProgress(Progress(t - c.transitionStart, c.transitionDuration)))

\* C31: the pose an update call of a transition leaves in the camera the
\* transition moves is a function of the wall clock and of what the
\* transition captured at its start, whatever update calls came before, and
\* the call completes the transition exactly when the clock has reached
\* start + duration.
C31_PoseFromWallClock ==
  [][(~updated /\ updated' /\ cm.isTransitioning) =>
       /\ cm'.position[cm.currentCamera] = TransitionPose(cm, now)
       /\ ~cm'.isTransitioning <=>
            now >= cm.transitionStart + cm.transitionDuration]_vars

\* C32: yaw and pitch change only in a step taken while the current mode is
\* 'player' and no transition is in flight.
C32_AnglesChangeInPlayerModeOnly ==
  [][(cm'.playerControls.yaw # cm.playerControls.yaw
        \/ cm'.playerControls.pitch # cm.playerControls.pitch) =>
       (cm.currentMode = "player" /\ ~cm.isTransitioning)]_vars

\* C33: whenever no transition is in flight, the orbit controls are enabled
\* exactly in system mode and the player controls exactly in player mode.
C33_ControlsMatchMode ==
  ~cm.isTransitioning =>
    /\ cm.orbitControls.enabled <=> cm.currentMode = "system"
    /\ cm.playerControls.enabled <=> cm.currentMode = "player"

\* C34: when a timed switch to system lands after a timed switch that left
\* system mode, the system camera is where it was before that first switch.
C34_SystemCameraKeepsPose ==
  (Landed /\ cm.currentMode = "system" /\ obs.timed /\ obs.home # Null) =>
    cm.position["SystemCamera"] = obs.home

\* C35: after the update that completes a transition, and after the next
\* update when nothing but the clock came between, the active camera is at
\* the to-position the transition captured when it started.
C35_HandOverContinuous ==
  /\ [](Landed => cm.position[cm.currentCamera] = cm.transitionToPosition)
  /\ [][(Landed /\ ~updated /\ updated') =>
          cm'.position[cm'.currentCamera] = cm.transitionToPosition]_vars

\* C36: in player mode with no transition in flight the active camera is the
\* one of the current third-person view: the orthographic camera for
\* 'overhead', the perspective player camera for 'shoulder'.
C36_CameraMatchesView ==
  (cm.currentMode = "player" /\ ~cm.isTransitioning) =>
    cm.currentCamera = ViewCamera(cm.currentThirdPersonView)

\* C37: for every configured view, getViewOffset(v) and
\* getConfig().thirdPersonViews[v] have the same fields with the same
\* values.
C37_OffsetViewsAgree ==
  \A v \in DOMAIN cm.thirdPersonOffsets :
    GetViewOffset(cm, v) = GetConfig(cm).thirdPersonViews[v]

\* C38: a mousemove event handled without pointer capture changes yaw or
\* pitch only when the mousemove event before it was recorded, so that the
\* difference is taken to the position of the immediately preceding event.
C38_NoStaleBaseline ==
  [][(/\ obs'.op = "mousemove"
      /\ ~cm.pointerLocked
      /\ \/ cm'.playerControls.yaw # cm.playerControls.yaw
         \/ cm'.playerControls.pitch # cm.playerControls.pitch) =>
       obs.sample = "recorded"]_vars

\* C39: whatever START clicks, CONTINUE clicks and key presses are
\* delivered, onStart and onContinue are invoked at most once between them;
\* a CONTINUE click made while there is no save data invokes and schedules
\* no callback and leaves the screen as active as it was.
C39_StartsAtMostOnce ==
  /\ [](ts.onStart + ts.onContinue <= 1)
  /\ [][(ts'.last = "continue" /\ ~ts.saveData) =>
          /\ ts'.isActive = ts.isActive
          /\ ts'.timers = ts.timers
          /\ ts'.onStart = ts.onStart
          /\ ts'.onContinue = ts.onContinue]_vars

C39_Witness ==
  /\ ts.onStart = 1
  /\ ts.onContinue = 0
  /\ ts.disposed
  /\ ts.last = "start"

====
